---- MODULE Spec2Model ----
(***************************************************************************)
(* express-yui (lib/yui.js): the `app.yui` extension object, its static    *)
(* configuration document, `augment` / `extend` of express applications,   *)
(* and the first exposure of the configuration to a request.               *)
(*                                                                         *)
(* JavaScript values are encoded so that every value of one kind has one   *)
(* shape: a configuration value is a record [kind, s, m] that is either a  *)
(* scalar (its text in s) or a nested mapping (in m); an object is a       *)
(* function whose DOMAIN is the set of its own keys; an optional argument  *)
(* is a record [def, obj], def = FALSE standing for `undefined`.           *)
(***************************************************************************)
EXTENDS Integers, Sequences, FiniteSets, TLC

\* ------------------------------------------------------------------ bounds
NumApps    == 2   \* application objects that may be created
MaxWrap    == 2   \* deepest nesting of defaultConfiguration wrappers explored
MaxAugment == 1   \* direct augment(app) calls per application that are followed
MaxCalls   == 2   \* config / applyConfig / debugMode calls that are followed
NumReqs    == 2   \* requests whose passage through the expose middleware is followed

Apps       == 1..NumApps
Frameworks == {"express", "custom"}   \* require('express') and one custom express reference
InitArgs   == {"args"}                \* the arguments handed to defaultConfiguration
Reqs       == 1..NumReqs

\* ------------------------------------------------------------ value encoding
EmptyMap == [k \in {} |-> ""]
Sc(x)    == [kind |-> "scalar", s |-> x, m |-> EmptyMap]
Mp(f)    == [kind |-> "map", s |-> "", m |-> f]
EmptyDoc == [k \in {} |-> Sc("")]
Obj(o)   == [def |-> TRUE, obj |-> o]
NoSource == [def |-> FALSE, obj |-> EmptyDoc]

\* a returned value: a reference to an instance, to a configuration object or
\* to an application, or undefined
Ref(kind, id) == [kind |-> kind, id |-> id]
Undefined     == Ref("undefined", 0)

\* version of the yui package that require('yui') yields
YuiVersion == "3.10.1"

\* ------------------------------------------------------------------- inputs
SrcFetchCSS == Obj([fetchCSS |-> Sc("false")])
SrcCombine  == Obj([combine |-> Sc("true")])
SrcGroupsA  == Obj([groups |-> Mp([a |-> "1"]), combine |-> Sc("false")])
SrcGroupsB  == Obj([groups |-> Mp([a |-> "2", b |-> "2"])])
Sources     == {SrcFetchCSS, SrcCombine, SrcGroupsA, SrcGroupsB}

\* argument lists of config / applyConfig: none or one (possibly undefined)
\* source; none or the three sources that set keys the others set too, each
\* of them once in every position
SingleArgs == {<<>>} \cup {<<s>> : s \in Sources \cup {NoSource}}
TripleArgs ==
    {<<>>, <<SrcCombine, SrcGroupsB, SrcGroupsA>>, <<SrcGroupsA, SrcCombine, SrcGroupsB>>,
     <<SrcGroupsB, SrcGroupsA, SrcCombine>>}
ArgLists   == SingleArgs \cup TripleArgs

\* the optional argument of debugMode
Overrides == {NoSource, SrcCombine, SrcGroupsA}

\* what the seed / groups providers contribute to the state of one request
Contributions == {"seedA", "seedB"}

VARIABLES
    utilsDebugMode,  \* utils.debugMode, the process-wide debug flag
    hook,            \* per framework: wrappers around the original defaultConfiguration
    appState,        \* per application: "none", "live" or "failed" (creation threw)
    yui,             \* per application: app.yui, an instance id, 0 when unset
    insts,           \* heap of ExpressYUIExtension objects, indexed by instance id
    docs,            \* heap of configuration objects, indexed by document id
    frozen,          \* per application: the first exposure of its configuration has occurred
    ctorRuns,        \* per application: runs of the constructor for it
    loads,           \* per application: require('yui') calls made for it
    log,             \* per application: events of its initialisation and augmentation
    calls,           \* configuration calls made so far
    reqs,            \* per followed request: its state, application, snapshot id, res.locals.state
    snaps,           \* heap of snapshot objects, indexed by snapshot id
    last             \* the operation performed last, its inputs and outcome

vars == <<utilsDebugMode, hook, appState, yui, insts, docs, frozen, ctorRuns, loads,
          log, calls, reqs, snaps, last>>

\* ------------------------------------------------------------ utils.extend
\* One nested level is merged key by key; nested values are scalars.
mergeMap(old, new) ==
    [k \in DOMAIN old \cup DOMAIN new |-> IF k \in DOMAIN new THEN new[k] ELSE old[k]]

mergeValue(old, new) ==
    IF old.kind = "map" /\ new.kind = "map" THEN Mp(mergeMap(old.m, new.m)) ELSE new

mixOne(obj, source) ==
    IF ~source.def THEN obj
    ELSE [k \in DOMAIN obj \cup DOMAIN source.obj |->
            IF k \notin DOMAIN source.obj THEN obj[k]
            ELSE IF k \in DOMAIN obj THEN mergeValue(obj[k], source.obj[k])
            ELSE source.obj[k]]

RECURSIVE utils_extend(_, _)
utils_extend(obj, sources) ==
    IF sources = <<>> THEN obj
    ELSE utils_extend(mixOne(obj, Head(sources)), Tail(sources))

\* ------------------------------------------------------ ExpressYUIExtension
\* The defaults with combine following the debug flag instead of negating it.
DefaultConfig_combineFlag(version, dbg) ==
    [version   |-> Sc(version),
     base      |-> Sc("http://yui.yahooapis.com/" \o version \o "/"),
     comboBase |-> Sc("http://yui.yahooapis.com/combo?"),
     comboSep  |-> Sc("&"),
     root      |-> Sc(version \o "/"),
     filter    |-> Sc(IF dbg THEN "debug" ELSE "min"),
     combine   |-> Sc(IF dbg THEN "true" ELSE "false")]

\* the default configuration based on version and assuming default CDN
DefaultConfig(version, dbg) ==
    [version   |-> Sc(version),
     base      |-> Sc("http://yui.yahooapis.com/" \o version \o "/"),
     comboBase |-> Sc("http://yui.yahooapis.com/combo?"),
     comboSep  |-> Sc("&"),
     root      |-> Sc(version \o "/"),
     filter    |-> Sc(IF dbg THEN "debug" ELSE "min"),
     combine   |-> Sc(IF dbg THEN "false" ELSE "true")]

\* The machine state the operations below transform: the members of the
\* state that construction and augmentation touch, and err once one threw.
Machine ==
    [yui |-> yui, insts |-> insts, docs |-> docs, ctorRuns |-> ctorRuns,
     loads |-> loads, log |-> log, err |-> FALSE]

Event(ev, app, args) == [ev |-> ev, recv |-> app, args |-> args]

\* The constructor leaving this._config to one object all instances share.
ExpressYUIExtension_sharedConfig(m, app, found) ==
    [ok  |-> found, loads |-> 1,
     obj |-> [_app |-> app, _config |-> 1, version |-> IF found THEN YuiVersion ELSE ""],
     doc |-> IF found THEN DefaultConfig(YuiVersion, utilsDebugMode) ELSE EmptyDoc]

\* The constructor trying require a second time when the first try threw.
ExpressYUIExtension_retry(m, app, found) ==
    [ok  |-> found, loads |-> IF found THEN 1 ELSE 2,
     obj |-> [_app |-> app, _config |-> Len(m.docs) + 1,
              version |-> IF found THEN YuiVersion ELSE ""],
     doc |-> IF found THEN DefaultConfig(YuiVersion, utilsDebugMode) ELSE EmptyDoc]

\* new ExpressYUIExtension(app): this._app and an empty this._config are set,
\* then require('yui...') either throws, and the constructor with it, or
\* yields the module from which version and the default document are taken.
\* found: whether require resolves the package at this call, which the
\* environment decides.  The result carries the object, the document it
\* refers to, ok, and how many require calls the run made.
ExpressYUIExtension(m, app, found) ==
    LET did == Len(m.docs) + 1
    IN  IF found
        THEN [ok  |-> TRUE, loads |-> 1,
              obj |-> [_app |-> app, _config |-> did, version |-> YuiVersion],
              doc |-> DefaultConfig(YuiVersion, utilsDebugMode)]
        ELSE [ok  |-> FALSE, loads |-> 1,
              obj |-> [_app |-> app, _config |-> did, version |-> ""],
              doc |-> EmptyDoc]

\* ------------------------------------------------------------------ augment
\* augment without the test of app.yui: every call constructs and binds.
augment_always(m, app, found) ==
    LET r  == ExpressYUIExtension(m, app, found)
        m1 == [m EXCEPT !.ctorRuns[app] = @ + 1,
                        !.loads[app] = @ + r.loads,
                        !.log[app] = Append(@, Event("new", app, ""))]
    IN  IF r.ok
        THEN [m1 EXCEPT !.insts = Append(@, r.obj),
                        !.docs = Append(@, r.doc),
                        !.yui[app] = Len(m.insts) + 1]
        ELSE [m1 EXCEPT !.err = TRUE]

\* augment handing every application the instance made first.
augment_singleton(m, app, found) ==
    IF m.yui[app] = 0
    THEN LET r  == ExpressYUIExtension(m, app, found)
             m1 == [m EXCEPT !.ctorRuns[app] = @ + 1,
                             !.loads[app] = @ + r.loads,
                             !.log[app] = Append(@, Event("new", app, ""))]
         IN  IF r.ok
             THEN [m1 EXCEPT !.insts = Append(@, r.obj),
                             !.docs = Append(@, r.doc),
                             !.yui[app] = 1]
             ELSE [m1 EXCEPT !.err = TRUE]
    ELSE [m EXCEPT !.log[app] = Append(@, Event("skip", app, ""))]

augment(m, app, found) ==
    IF m.yui[app] = 0
    THEN LET r  == ExpressYUIExtension(m, app, found)
             m1 == [m EXCEPT !.ctorRuns[app] = @ + 1,
                             !.loads[app] = @ + r.loads,
                             !.log[app] = Append(@, Event("new", app, ""))]
         IN  IF r.ok
             THEN [m1 EXCEPT !.insts = Append(@, r.obj),
                             !.docs = Append(@, r.doc),
                             !.yui[app] = Len(m.insts) + 1]
             ELSE [m1 EXCEPT !.err = TRUE]
    ELSE [m EXCEPT !.log[app] = Append(@, Event("skip", app, ""))]

\* ------------------------------------------------------------------- extend
\* appProto.defaultConfiguration after `depth` applications of extend, run
\* with receiver app and arguments args: the wrapper calls the hook it
\* replaced and then augment; an exception leaves through every wrapper.
\* The wrapper augmenting before it calls the hook it replaced.
RECURSIVE defaultConfiguration_augmentFirst(_, _, _, _, _)
defaultConfiguration_augmentFirst(m, depth, app, args, found) ==
    IF depth = 0
    THEN [m EXCEPT !.log[app] = Append(@, Event("orig", app, args))]
    ELSE LET m1 == augment(m, app, found)
         IN  IF m1.err THEN m1
             ELSE defaultConfiguration_augmentFirst(m1, depth - 1, app, args, found)

RECURSIVE defaultConfiguration(_, _, _, _, _)
defaultConfiguration(m, depth, app, args, found) ==
    IF depth = 0
    THEN [m EXCEPT !.log[app] = Append(@, Event("orig", app, args))]
    ELSE LET m1 == defaultConfiguration(m, depth - 1, app, args, found)
         IN  IF m1.err THEN m1 ELSE augment(m1, app, found)

extend(h, express) == [h EXCEPT ![express] = @ + 1]

\* ------------------------------------------- config, applyConfig, debugMode
DebugPreset ==
    Obj([combine |-> Sc("false"), debug |-> Sc("true"), filter |-> Sc("debug"),
         logLevel |-> Sc("debug"), useBrowserConsole |-> Sc("true")])

\* config mixing in its first argument only.
config_firstOnly(ds, this, args) ==
    [docs |-> IF Len(args) > 0
              THEN [ds EXCEPT ![insts[this]._config] = utils_extend(@, <<Head(args)>>)]
              ELSE ds,
     ret  |-> Ref("config", insts[this]._config),
     args |-> args]

\* config mixing the sources into an empty object that replaces the document.
config_fresh(ds, this, args) ==
    [docs |-> IF Len(args) > 0
              THEN [ds EXCEPT ![insts[this]._config] = utils_extend(EmptyDoc, args)]
              ELSE ds,
     ret  |-> Ref("config", insts[this]._config),
     args |-> args]

\* config answering with a copy of the document.
config_copy(ds, this, args) ==
    [docs |-> IF Len(args) > 0
              THEN [ds EXCEPT ![insts[this]._config] = utils_extend(@, args)]
              ELSE ds,
     ret  |-> Ref("config", 0),
     args |-> args]

\* config without args.unshift(this._config): the first source is the object
\* mixed into.
config_noUnshift(ds, this, args) ==
    [docs |-> ds,
     ret  |-> Ref("config", insts[this]._config),
     args |-> IF Len(args) > 0 /\ Head(args).def
              THEN <<Obj(utils_extend(Head(args).obj, Tail(args)))>> \o Tail(args)
              ELSE args]

\* this.config(...args) on instance id `this`: the heap afterwards, the
\* returned reference, and the argument objects as the call leaves them.
\* With arguments, this._config is put in front of them and utils.extend
\* mixes the others into it.
config(ds, this, args) ==
    LET all == <<ds[insts[this]._config]>> \o args
    IN  [docs |-> IF Len(args) > 0
                  THEN [ds EXCEPT ![insts[this]._config] =
                                      utils_extend(Head(all), Tail(all))]
                  ELSE ds,
         ret  |-> Ref("config", insts[this]._config),
         args |-> Tail(all)]

\* applyConfig answering with what config returns.
applyConfig_returnsConfig(ds, this, args) ==
    config(ds, this, args)

applyConfig(ds, this, args) ==
    LET r == config(ds, this, args)
    IN  [docs |-> r.docs, ret |-> Ref("yui", this), args |-> r.args]

\* debugMode mixing the preset in after the caller's settings.
debugMode_presetLast(ds, this, cfg) ==
    LET r == config(ds, this, <<cfg, DebugPreset>>)
    IN  [docs |-> r.docs, ret |-> Ref("yui", this), args |-> <<r.args[1]>>]

\* debugMode(cfg): the preset is an object made for the call, mixed in
\* before cfg
debugMode(ds, this, cfg) ==
    LET r == config(ds, this, <<DebugPreset, cfg>>)
    IN  [docs |-> r.docs, ret |-> Ref("yui", this), args |-> <<r.args[2]>>]

\* ----------------------------------------------------------- expose middleware
\* a request that has not arrived
NoRequest == [state |-> "NONE", app |-> 0, snap |-> 0, locals |-> 0]

\* ConfigStore.freeze(): one-way and idempotent
freeze(fz, a) == [fz EXCEPT ![a] = TRUE]

\* The middleware keeping one snapshot object and handing it to every request.
snapshot_cached(ss, doc, contribution) ==
    IF ss = <<>>
    THEN [snaps |-> <<[config |-> doc, scope |-> contribution]>>, id |-> 1]
    ELSE [snaps |-> [ss EXCEPT ![1] = [config |-> doc, scope |-> contribution]],
          id |-> 1]

\* the snapshot of one request: a new object holding a shallow copy of the
\* document and the request-scope contribution; the heap with it and its id
snapshot(ss, doc, contribution) ==
    [snaps |-> Append(ss, [config |-> doc, scope |-> contribution]),
     id    |-> Len(ss) + 1]

\* the document of application a's instance
ConfigOf(a) == docs[insts[yui[a]]._config]

\* ------------------------------------------------------------------ actions
\* after: the argument objects as the operation left them
Last(op, a, f, ia, args, pre, result, ret, after) ==
    [op |-> op, app |-> a, fw |-> f, initArgs |-> ia, args |-> args, pre |-> pre,
     result |-> result, ret |-> ret, after |-> after, req |-> 0]

AugmentCalls(a) == Cardinality({i \in DOMAIN log[a] : log[a][i].ev = "call"})

SetMachine(m) ==
    /\ yui' = m.yui
    /\ insts' = m.insts
    /\ docs' = m.docs
    /\ ctorRuns' = m.ctorRuns
    /\ loads' = m.loads
    /\ log' = m.log

Init ==
    /\ utilsDebugMode \in BOOLEAN
    /\ hook = extend([f \in Frameworks |-> 0], "express")
    /\ appState = [a \in Apps |-> "none"]
    /\ yui = [a \in Apps |-> 0]
    /\ insts = <<>>
    /\ docs = <<>>
    /\ frozen = [a \in Apps |-> FALSE]
    /\ ctorRuns = [a \in Apps |-> 0]
    /\ loads = [a \in Apps |-> 0]
    /\ log = [a \in Apps |-> <<>>]
    /\ calls = 0
    /\ reqs = [r \in Reqs |-> NoRequest]
    /\ snaps = <<>>
    /\ last = Last("load", 0, "express", "", <<>>, EmptyDoc, "ok", Undefined, <<>>)

\* app = express(): the framework runs app.defaultConfiguration(args).
\* Applications are numbered in the order of their creation.
CreateApp(f, a, args, found) ==
    /\ appState[a] = "none"
    /\ \A b \in Apps : b < a => appState[b] # "none"
    /\ LET m == defaultConfiguration(Machine, hook[f], a, args, found)
       IN  /\ SetMachine(m)
           /\ appState' = [appState EXCEPT ![a] = IF m.err THEN "failed" ELSE "live"]
           /\ last' = Last("create", a, f, args, <<>>, EmptyDoc,
                           IF m.err THEN "error" ELSE "ok", Undefined, <<>>)
    /\ UNCHANGED <<utilsDebugMode, hook, frozen, calls, reqs, snaps>>

\* YUI.augment(app) on an existing application
Augment(a, found) ==
    /\ appState[a] = "live"
    /\ AugmentCalls(a) < MaxAugment
    /\ LET m == augment([Machine EXCEPT !.log[a] = Append(@, Event("call", a, ""))],
                         a, found)
       IN  /\ SetMachine(m)
           /\ last' = Last("augment", a, "", "", <<>>, EmptyDoc,
                           IF m.err THEN "error" ELSE "ok",
                           IF m.err THEN Undefined ELSE Ref("app", a), <<>>)
    /\ UNCHANGED <<utilsDebugMode, hook, appState, frozen, calls, reqs, snaps>>

\* YUI.extend(express)
Extend(f) ==
    /\ hook[f] < MaxWrap
    /\ hook' = extend(hook, f)
    /\ last' = Last("extend", 0, f, "", <<>>, EmptyDoc, "ok", Undefined, <<>>)
    /\ UNCHANGED <<utilsDebugMode, appState, yui, insts, docs, frozen, ctorRuns, loads,
                   log, calls, reqs, snaps>>

Configure(op, a, args, r) ==
    /\ docs' = r.docs
    /\ calls' = calls + 1
    /\ last' = Last(op, a, "", "", args, ConfigOf(a), "ok", r.ret, r.args)
    /\ UNCHANGED <<utilsDebugMode, hook, appState, yui, insts, frozen, ctorRuns, loads,
                   log, reqs, snaps>>

\* app.yui.config(...args)
Config(a, args) ==
    /\ yui[a] # 0
    /\ calls < MaxCalls
    /\ Configure("config", a, args, config(docs, yui[a], args))

\* app.yui.applyConfig(...args)
ApplyConfig(a, args) ==
    /\ yui[a] # 0
    /\ calls < MaxCalls
    /\ Configure("applyConfig", a, args, applyConfig(docs, yui[a], args))

\* app.yui.debugMode(cfg)
DebugMode(a, cfg) ==
    /\ yui[a] # 0
    /\ calls < MaxCalls
    /\ Configure("debugMode", a, <<cfg>>, debugMode(docs, yui[a], cfg))

\* a request of application a served from its arrival to its end, its
\* snapshot discarded with it: the first one freezes the configuration,
\* every one exposes it
Expose(a) ==
    /\ yui[a] # 0
    /\ frozen' = freeze(frozen, a)
    /\ last' = Last("expose", a, "", "", <<>>, ConfigOf(a), "ok", Undefined, <<>>)
    /\ UNCHANGED <<utilsDebugMode, hook, appState, yui, insts, docs,
                   ctorRuns, loads, log, calls, reqs, snaps>>

\* ------------------------------------------------- the requests of YUI.expose()
\* the step of request r that was performed last
LastReq(op, a, r) ==
    [Last(op, a, "", "", <<>>, ConfigOf(a), "ok", Undefined, <<>>) EXCEPT !.req = r]

reqFrame == <<utilsDebugMode, hook, appState, yui, insts, docs, ctorRuns, loads, log,
              calls>>

\* a request reaches a route of application a that has YUI.expose() in its chain
Arrive(r, a) ==
    /\ yui[a] # 0
    /\ reqs[r].state = "NONE"
    /\ \A q \in Reqs : q < r => reqs[q].state # "NONE"
    /\ reqs' = [reqs EXCEPT ![r] = [state |-> "PENDING", app |-> a, snap |-> 0,
                                    locals |-> 0]]
    /\ last' = LastReq("arrive", a, r)
    /\ UNCHANGED <<frozen, snaps>>
    /\ UNCHANGED reqFrame

\* the middleware freezes the configuration, a no-op when it is frozen, and
\* builds the snapshot of request r with what the providers contribute
TakeSnapshot(r, contribution) ==
    /\ reqs[r].state = "PENDING"
    /\ LET a  == reqs[r].app
           sn == snapshot(snaps, ConfigOf(a), contribution)
       IN  /\ frozen' = freeze(frozen, a)
           /\ snaps' = sn.snaps
           /\ reqs' = [reqs EXCEPT ![r].state = "SNAPSHOTTED", ![r].snap = sn.id]
           /\ last' = LastReq("snapshot", a, r)
    /\ UNCHANGED reqFrame

\* the snapshot is put into res.locals of request r
Attach(r) ==
    /\ reqs[r].state = "SNAPSHOTTED"
    /\ reqs' = [reqs EXCEPT ![r].state = "ATTACHED", ![r].locals = reqs[r].snap]
    /\ last' = LastReq("attach", reqs[r].app, r)
    /\ UNCHANGED <<frozen, snaps>>
    /\ UNCHANGED reqFrame

\* a collaborator changes what it contributed to the state of request r
Contribute(r, contribution) ==
    /\ reqs[r].state \in {"SNAPSHOTTED", "ATTACHED"}
    /\ snaps[reqs[r].snap].scope # contribution
    /\ snaps' = [snaps EXCEPT ![reqs[r].snap].scope = contribution]
    /\ last' = LastReq("contribute", reqs[r].app, r)
    /\ UNCHANGED <<frozen, reqs>>
    /\ UNCHANGED reqFrame

Next ==
    \/ \E f \in Frameworks, a \in Apps, args \in InitArgs, found \in BOOLEAN :
          CreateApp(f, a, args, found)
    \/ \E a \in Apps, found \in BOOLEAN : Augment(a, found)
    \/ \E f \in Frameworks : Extend(f)
    \/ \E a \in Apps, args \in ArgLists : Config(a, args)
    \/ \E a \in Apps, args \in ArgLists : ApplyConfig(a, args)
    \/ \E a \in Apps, cfg \in Overrides : DebugMode(a, cfg)
    \/ \E a \in Apps : Expose(a)
    \/ \E r \in Reqs, a \in Apps : Arrive(r, a)
    \/ \E r \in Reqs, c \in Contributions : TakeSnapshot(r, c)
    \/ \E r \in Reqs : Attach(r)
    \/ \E r \in Reqs, c \in Contributions : Contribute(r, c)

Spec == Init /\ [][Next]_vars

\* Applications created and augmented through frameworks that extend has
\* patched any number of times.
NextAugment ==
    \/ \E f \in Frameworks, a \in Apps, args \in InitArgs, found \in BOOLEAN :
          CreateApp(f, a, args, found)
    \/ \E a \in Apps, found \in BOOLEAN : Augment(a, found)
    \/ \E f \in Frameworks : Extend(f)

SpecAugment == Init /\ [][NextAugment]_vars

\* Applications of require('express') as patched at module load, with the
\* yui package in place, configured and exposed; config is given no or three
\* sources, applyConfig none or one.
NextConfig ==
    \/ \E a \in Apps : CreateApp("express", a, "args", TRUE)
    \/ \E a \in Apps, args \in TripleArgs : Config(a, args)
    \/ \E a \in Apps, args \in SingleArgs : ApplyConfig(a, args)
    \/ \E a \in Apps, cfg \in Overrides : DebugMode(a, cfg)
    \/ \E a \in Apps : Expose(a)

SpecConfig == Init /\ [][NextConfig]_vars

\* One application of require('express') whose requests pass YUI.expose()
\* one step at a time, interleaved with each other and with configuration
\* calls.
NextExpose ==
    \/ CreateApp("express", 1, "args", TRUE)
    \/ \E s \in {SrcFetchCSS, SrcCombine} : ApplyConfig(1, <<s>>)
    \/ \E r \in Reqs : Arrive(r, 1)
    \/ \E r \in Reqs, c \in Contributions : TakeSnapshot(r, c)
    \/ \E r \in Reqs : Attach(r)
    \/ \E r \in Reqs, c \in Contributions : Contribute(r, c)

SpecExpose == Init /\ [][NextExpose]_vars

\* ------------------------------------------------------------------- claims
Bound(a)  == yui[a] # 0
Count(a, evs) == Cardinality({i \in DOMAIN log[a] : log[a][i].ev \in evs})
ConfigOps == {"config", "applyConfig", "debugMode"}

\* C1: once the expose middleware has run for an instance, its document
\* stays exactly as it was at that first exposure, whatever is called later.
C1_FreezeIrreversible ==
    [][\A a \in Apps : frozen[a] => ConfigOf(a)' = ConfigOf(a)]_vars

\* C2: once augment has bound an instance to an application, every later
\* augment of that application leaves the very same instance bound and runs
\* neither the constructor nor require again; the bound instance is the only
\* one ever made for the application.
C2_IdempotentAugment ==
    /\ [](\A a \in Apps : Bound(a) =>
            /\ yui[a] \in DOMAIN insts
            /\ {i \in DOMAIN insts : insts[i]._app = a} = {yui[a]})
    /\ [][\A a \in Apps : Bound(a) =>
            /\ yui'[a] = yui[a]
            /\ insts'[yui[a]] = insts[yui[a]]
            /\ ctorRuns'[a] = ctorRuns[a]
            /\ loads'[a] = loads[a]]_vars

\* a second augment of an application that already has its instance
C2_Witness ==
    /\ last.op = "augment"
    /\ last.result = "ok"
    /\ Bound(last.app)
    /\ Count(last.app, {"skip"}) >= 1
    /\ ctorRuns[last.app] = 1

\* C6: however often extend is applied to a framework, its initialization
\* hook is the original hook wrapped exactly once.
C6_PatchOnce ==
    /\ \A f \in Frameworks : hook[f] <= 1
    /\ last.op = "extend" => hook[last.fw] = 1

\* C7: when the creation of an application through a patched framework
\* returns, the original hook has run exactly once, first, with the
\* application as receiver and the arguments given, and the application has
\* one bound instance, constructed once.
C7_AutoAugment ==
    (last.op = "create" /\ last.result = "ok" /\ hook[last.fw] >= 1) =>
        LET a == last.app
        IN  /\ Count(a, {"orig"}) = 1
            /\ log[a][1] = Event("orig", a, last.initArgs)
            /\ Bound(a)
            /\ insts[yui[a]]._app = a
            /\ ctorRuns[a] = 1
            /\ Count(a, {"new"}) = 1
            /\ Cardinality({i \in DOMAIN insts : insts[i]._app = a}) = 1

\* an application created through a framework that extend was applied to twice
C7_Witness ==
    /\ last.op = "create"
    /\ last.result = "ok"
    /\ hook[last.fw] = 2
    /\ last.initArgs = "args"
    /\ Bound(last.app)
    /\ Count(last.app, {"skip"}) = 1

\* C8: a call in which require fails ends with an error, makes one require
\* call, leaves app.yui unset and changes no instance, document or binding.
C8_SetupFailure ==
    [][\A a \in Apps :
        /\ (last'.result = "error" /\ last'.app = a) =>
              /\ yui'[a] = 0
              /\ yui' = yui
              /\ insts' = insts
              /\ docs' = docs
              /\ frozen' = frozen
              /\ ctorRuns'[a] = ctorRuns[a] + 1
              /\ loads'[a] = loads[a] + 1
              /\ \A b \in Apps \ {a} : loads'[b] = loads[b]
        /\ (ctorRuns'[a] > ctorRuns[a] /\ yui'[a] = 0) => last'.result = "error"]_vars

\* a creation that failed while another application has a configured instance
C8_Witness ==
    /\ last.op = "create"
    /\ last.result = "error"
    /\ yui[last.app] = 0
    /\ \E b \in Apps \ {last.app} : Bound(b) /\ "combine" \in DOMAIN ConfigOf(b)

\* ---------------------------------------------------- claims on the document
Max(S) == CHOOSE x \in S : \A y \in S : y <= x
Defined(args) == {i \in DOMAIN args : args[i].def}
KeysOf(args)  == UNION {DOMAIN args[i].obj : i \in Defined(args)}

\* the values key k takes in turn: the one held before, then the one of
\* every source that sets k, in argument order
Chain(pre, args, k) ==
    LET setters == SelectSeq(args, LAMBDA src : src.def /\ k \in DOMAIN src.obj)
    IN  (IF k \in DOMAIN pre THEN <<pre[k]>> ELSE <<>>)
        \o [i \in 1..Len(setters) |-> setters[i].obj[k]]

\* d[k] is what the chain c of values leaves: its last value when that is a
\* scalar, else the nested mappings since the last scalar, each nested key
\* holding the value of the last of them that mentions it
Settles(c, v) ==
    LET n == Len(c)
        r == Max({0} \cup {i \in 1..n : c[i].kind = "scalar"})
    IN  IF c[n].kind = "scalar" THEN v = c[n]
        ELSE /\ v.kind = "map"
             /\ DOMAIN v.m = UNION {DOMAIN c[i].m : i \in (r + 1)..n}
             /\ \A sub \in DOMAIN v.m :
                   v.m[sub] = c[Max({i \in (r + 1)..n : sub \in DOMAIN c[i].m})].m[sub]

\* the heap with the document of application a set to d
HeapWith(a, d) == [docs EXCEPT ![insts[yui[a]]._config] = d]

\* C3 as stated: after debugMode(overrides) on an unfrozen instance every key
\* of overrides holds the override's value and every other preset key holds
\* the preset's value.
C3_Original ==
    (last.op = "debugMode" /\ ~frozen[last.app]) =>
        LET ov == last.args[1]
            d  == ConfigOf(last.app)
        IN  /\ \A k \in KeysOf(<<ov>>) : d[k] = ov.obj[k]
            /\ \A k \in DOMAIN DebugPreset.obj \ KeysOf(<<ov>>) : d[k] = DebugPreset.obj[k]

\* C3 as amended: after debugMode(overrides) on an unfrozen instance every key
\* of overrides holds the override's value, except that where the override's
\* value and the value the document held for a key the preset does not set
\* are both nested mappings the document holds their key-by-key merge, the
\* override's nested keys winning; every other preset key holds the preset's
\* value.
C3_PresetOverride ==
    (last.op = "debugMode" /\ ~frozen[last.app]) =>
        LET ov  == last.args[1]
            pre == last.pre
            d   == ConfigOf(last.app)
            merged(k) == /\ k \notin DOMAIN DebugPreset.obj
                         /\ k \in DOMAIN pre
                         /\ pre[k].kind = "map"
                         /\ ov.obj[k].kind = "map"
        IN  /\ \A k \in KeysOf(<<ov>>) :
                  IF merged(k)
                  THEN /\ d[k].kind = "map"
                       /\ DOMAIN d[k].m = DOMAIN pre[k].m \cup DOMAIN ov.obj[k].m
                       /\ \A sub \in DOMAIN d[k].m :
                             d[k].m[sub] = IF sub \in DOMAIN ov.obj[k].m
                                           THEN ov.obj[k].m[sub] ELSE pre[k].m[sub]
                  ELSE d[k] = ov.obj[k]
            /\ \A k \in DOMAIN DebugPreset.obj \ KeysOf(<<ov>>) : d[k] = DebugPreset.obj[k]

\* debugMode({combine: true}) on a document whose combine the preset would
\* have turned off
C3_Witness ==
    /\ last.op = "debugMode"
    /\ ~frozen[last.app]
    /\ last.args = <<SrcCombine>>
    /\ ConfigOf(last.app).combine = Sc("true")
    /\ ConfigOf(last.app).filter = Sc("debug")
    /\ ConfigOf(last.app).debug = Sc("true")
    /\ ConfigOf(last.app).logLevel = Sc("debug")

\* C4: one call config(A, B, C) leaves the document that the three calls
\* config(A); config(B); config(C) leave when made from the same document.
C4_MergeOrder ==
    (last.op = "config" /\ Len(last.args) = 3) =>
        LET a  == last.app
            d0 == HeapWith(a, last.pre)
            d1 == config(d0, yui[a], <<last.args[1]>>).docs
            d2 == config(d1, yui[a], <<last.args[2]>>).docs
            d3 == config(d2, yui[a], <<last.args[3]>>).docs
        IN  docs = d3

\* config(A, B, C) with sources that set combine and groups differently
C4_Witness ==
    /\ last.op = "config"
    /\ last.args = <<SrcCombine, SrcGroupsB, SrcGroupsA>>
    /\ "groups" \notin DOMAIN last.pre
    /\ ConfigOf(last.app).combine = Sc("false")
    /\ ConfigOf(last.app).groups = Mp([a |-> "1", b |-> "2"])

\* C5: after a config or applyConfig call before the freeze, the document has
\* the keys it had and those of the sources; a key no source sets is as it
\* was; a key some source sets holds the last such source's value, nested
\* mappings that meet being merged key by key.
C5_MergeSemantics ==
    (last.op \in {"config", "applyConfig"} /\ ~frozen[last.app]) =>
        LET d == ConfigOf(last.app)
        IN  /\ DOMAIN d = DOMAIN last.pre \cup KeysOf(last.args)
            /\ \A k \in DOMAIN d : Settles(Chain(last.pre, last.args, k), d[k])

\* applyConfig({groups: {a: 1}, combine: false}) on a document that holds
\* combine true and groups {a: 2, b: 2}
C5_Witness ==
    /\ last.op = "applyConfig"
    /\ ~frozen[last.app]
    /\ last.args = <<SrcGroupsA>>
    /\ last.pre.combine = Sc("true")
    /\ "groups" \in DOMAIN last.pre
    /\ last.pre.groups = Mp([a |-> "2", b |-> "2"])
    /\ ConfigOf(last.app).combine = Sc("false")
    /\ ConfigOf(last.app).groups = Mp([a |-> "1", b |-> "2"])

\* C9: two applications' instances never refer to one document, and a
\* configuration call on one leaves the other's document as it was.
C9_StoreIsolation ==
    /\ [](\A a \in Apps : \A b \in Apps \ {a} : (Bound(a) /\ Bound(b)) =>
            /\ yui[a] # yui[b]
            /\ insts[yui[a]]._config # insts[yui[b]]._config)
    /\ [][\A a \in Apps : \A b \in Apps \ {a} :
            (Bound(a) /\ Bound(b) /\ last'.op \in ConfigOps /\ last'.app = a)
                => ConfigOf(b)' = ConfigOf(b)]_vars

\* a configuration call changed one application's document while the other
\* application's document differs from it
C9_Witness ==
    /\ last.op \in ConfigOps
    /\ \A a \in Apps : Bound(a)
    /\ ConfigOf(last.app) # last.pre
    /\ \E b \in Apps \ {last.app} :
          /\ ConfigOf(b) # ConfigOf(last.app)
          /\ ConfigOf(b) # DefaultConfig(YuiVersion, utilsDebugMode)

\* the documents of the scenario: before debugMode(), after it, and what
\* debugMode() leaves of the bare defaults
ScenarioBefore ==
    [version   |-> Sc("3.10.1"),
     base      |-> Sc("http://yui.yahooapis.com/3.10.1/"),
     comboBase |-> Sc("http://yui.yahooapis.com/combo?"),
     comboSep  |-> Sc("&"),
     root      |-> Sc("3.10.1/"),
     filter    |-> Sc("min"),
     combine   |-> Sc("true"),
     fetchCSS  |-> Sc("false")]

ScenarioAfter ==
    [version   |-> Sc("3.10.1"),
     base      |-> Sc("http://yui.yahooapis.com/3.10.1/"),
     comboBase |-> Sc("http://yui.yahooapis.com/combo?"),
     comboSep  |-> Sc("&"),
     root      |-> Sc("3.10.1/"),
     filter    |-> Sc("debug"),
     combine   |-> Sc("false"),
     fetchCSS  |-> Sc("false"),
     debug     |-> Sc("true"),
     logLevel  |-> Sc("debug"),
     useBrowserConsole |-> Sc("true")]

ScenarioPreset ==
    [k \in DOMAIN ScenarioAfter \ {"fetchCSS"} |-> ScenarioAfter[k]]

\* C10: from the defaults {combine: true, filter: 'min'} and
\* applyConfig({fetchCSS: false}), debugMode() leaves combine=false,
\* filter='debug', debug=true, logLevel='debug' and every other key as it
\* was; after the first exposure applyConfig({combine: true}) leaves combine
\* false.
C10_Scenario ==
    /\ (last.op = "debugMode" /\ last.args = <<NoSource>> /\ last.pre = ScenarioBefore)
          => ConfigOf(last.app) = ScenarioAfter
    /\ (/\ last.op = "applyConfig"
        /\ last.args = <<SrcCombine>>
        /\ last.pre \in {ScenarioAfter, ScenarioPreset}
        /\ frozen[last.app])
          => ConfigOf(last.app).combine = Sc("false")

\* ------------------------------------------- claims on the instance's methods
\* the operation performed last ran the constructor for its application and
\* bound the instance
Constructed ==
    /\ last.result = "ok"
    /\ last.op \in {"create", "augment"}
    /\ Bound(last.app)
    /\ log[last.app] # <<>>
    /\ \/ last.op = "create"
       \/ log[last.app][Len(log[last.app])].ev = "new"

\* C12: the document of an instance just constructed holds filter 'debug'
\* and combine false when utils.debugMode is set, filter 'min' and combine
\* true when it is not, and version, base, comboBase, comboSep and root, and
\* no other key.
C12_Defaults ==
    Constructed =>
        LET d == ConfigOf(last.app)
        IN  /\ DOMAIN d = {"version", "base", "comboBase", "comboSep", "root",
                           "filter", "combine"}
            /\ utilsDebugMode  => (d.filter = Sc("debug") /\ d.combine = Sc("false"))
            /\ ~utilsDebugMode => (d.filter = Sc("min") /\ d.combine = Sc("true"))
            /\ (d.combine = Sc("true")) = ~utilsDebugMode
            /\ d.version = Sc("3.10.1")
            /\ d.base = Sc("http://yui.yahooapis.com/3.10.1/")
            /\ d.comboBase = Sc("http://yui.yahooapis.com/combo?")
            /\ d.comboSep = Sc("&")
            /\ d.root = Sc("3.10.1/")

\* an instance constructed by a direct augment while utils.debugMode is set
C12_Witness ==
    /\ Constructed
    /\ last.op = "augment"
    /\ utilsDebugMode
    /\ ConfigOf(last.app).filter = Sc("debug")
    /\ ConfigOf(last.app).combine = Sc("false")

\* C17: the instance bound to an application refers back to that application
\* through _app, and no two applications are bound to one instance.
C17_Binding ==
    /\ \A a \in Apps : Bound(a) =>
          /\ yui[a] \in DOMAIN insts
          /\ insts[yui[a]]._app = a
    /\ \A a \in Apps : \A b \in Apps \ {a} : (Bound(a) /\ Bound(b)) => yui[a] # yui[b]

\* two bound applications, the later one bound by a direct augment
C17_Witness ==
    /\ Constructed
    /\ last.op = "augment"
    /\ \E b \in Apps \ {last.app} : Bound(b) /\ insts[yui[b]]._app = b
    /\ insts[yui[last.app]]._app = last.app

\* C13: applyConfig and debugMode return the instance they were called on;
\* the chains .applyConfig({groups}, {combine}).debugMode({groups, combine})
\* and .debugMode(...).applyConfig(...), whose second call is made on what
\* the first returns, leave the heap that the two calls made in turn on the
\* instance leave.
C13_Chainable ==
    last.op \in {"applyConfig", "debugMode"} =>
        /\ last.ret = Ref("yui", yui[last.app])
        /\ LET this == yui[last.app]
               args == <<SrcGroupsB, SrcCombine>>
               r1   == applyConfig(docs, this, args)
               r2   == debugMode(docs, this, SrcGroupsA)
           IN  /\ r1.ret = Ref("yui", this)
               /\ r2.ret = Ref("yui", this)
               /\ debugMode(r1.docs, r1.ret.id, SrcGroupsA).docs
                     = debugMode(applyConfig(docs, this, args).docs, this, SrcGroupsA).docs
               /\ applyConfig(r2.docs, r2.ret.id, args).docs
                     = applyConfig(debugMode(docs, this, SrcGroupsA).docs, this, args).docs

\* debugMode called after applyConfig({fetchCSS: false}) on the same instance
C13_Witness ==
    /\ last.op = "debugMode"
    /\ last.ret = Ref("yui", yui[last.app])
    /\ insts[last.ret.id]._app = last.app
    /\ "fetchCSS" \in DOMAIN last.pre
    /\ ConfigOf(last.app).fetchCSS = Sc("false")
    /\ ConfigOf(last.app).debug = Sc("true")

\* C15: config() and applyConfig() leave the document as it was; config,
\* with or without sources, returns the instance's _config object, which is
\* the object a call with sources has mixed them into, and config() called
\* next returns that object again and leaves the heap as it is.
C15_ReadPure ==
    /\ (last.op \in {"config", "applyConfig"} /\ last.args = <<>>) =>
          ConfigOf(last.app) = last.pre
    /\ last.op = "config" =>
          /\ last.ret = Ref("config", insts[yui[last.app]]._config)
          /\ docs[last.ret.id] = utils_extend(last.pre, last.args)
    /\ last.op = "config" =>
          /\ config(docs, yui[last.app], <<>>).docs = docs
          /\ applyConfig(docs, yui[last.app], <<>>).docs = docs
          /\ config(docs, yui[last.app], <<>>).ret = last.ret

\* config() on an instance whose document an earlier call has changed
C15_Witness ==
    /\ last.op = "config"
    /\ last.args = <<>>
    /\ last.pre # DefaultConfig(YuiVersion, utilsDebugMode)
    /\ ConfigOf(last.app) = last.pre
    /\ last.ret = Ref("config", insts[yui[last.app]]._config)

\* C16: a configuration call leaves its argument objects as they were and
\* changes no object but the document of the instance it is called on;
\* debugMode sets every preset key its overrides do not set to the preset's
\* value, whatever earlier calls were given.
C16_SourcesReadOnly ==
    /\ [](last.op \in ConfigOps =>
            /\ last.after = last.args
            /\ last.op = "debugMode" =>
                  LET d  == ConfigOf(last.app)
                      ov == KeysOf(last.args)
                  IN  /\ "combine" \notin ov => d.combine = Sc("false")
                      /\ "debug" \notin ov => d.debug = Sc("true")
                      /\ "filter" \notin ov => d.filter = Sc("debug")
                      /\ "logLevel" \notin ov => d.logLevel = Sc("debug")
                      /\ "useBrowserConsole" \notin ov => d.useBrowserConsole = Sc("true"))
    /\ [][last'.op \in ConfigOps =>
            /\ insts' = insts
            /\ yui' = yui
            /\ DOMAIN docs' = DOMAIN docs
            /\ \A i \in DOMAIN docs :
                  i # insts[yui[last'.app]]._config => docs'[i] = docs[i]]_vars

\* debugMode() after debugMode({combine: true}): the earlier override is
\* gone and the argument is as it was
C16_Witness ==
    /\ last.op = "debugMode"
    /\ last.args = <<NoSource>>
    /\ last.after = <<NoSource>>
    /\ "debug" \in DOMAIN last.pre
    /\ last.pre.combine = Sc("true")
    /\ ConfigOf(last.app).combine = Sc("false")

\* ------------------------------------------------------ claims on the requests
RequestOps == {"arrive", "snapshot", "attach", "contribute"}
HasSnapshot(r) == reqs[r].snap # 0
SnapshotOf(r)  == snaps[reqs[r].snap]

\* C11: a request has its snapshot only once its application's configuration
\* is frozen, a frozen configuration stays frozen, and the snapshots of any
\* two requests of one application hold the same configuration, whatever was
\* called between them.
C11_OneTimeFreeze ==
    /\ [](\A r \in Reqs : HasSnapshot(r) => frozen[reqs[r].app])
    /\ [][\A a \in Apps : frozen[a] => frozen'[a]]_vars
    /\ [](\A r \in Reqs : \A q \in Reqs \ {r} :
            (HasSnapshot(r) /\ HasSnapshot(q) /\ reqs[r].app = reqs[q].app)
                => SnapshotOf(r).config = SnapshotOf(q).config)

\* C14: two requests never hold the same snapshot object; a change of one
\* request's contribution leaves every other request's snapshot as it was;
\* no step of a request changes a configuration document.
C14_SnapshotIsolation ==
    /\ [](\A r \in Reqs : \A q \in Reqs \ {r} :
            (HasSnapshot(r) /\ HasSnapshot(q)) => reqs[r].snap # reqs[q].snap)
    /\ [][\A r \in Reqs : \A q \in Reqs \ {r} :
            (last'.op \in RequestOps /\ last'.req = r /\ HasSnapshot(q))
                => /\ reqs'[q] = reqs[q]
                   /\ snaps'[reqs[q].snap] = snaps[reqs[q].snap]]_vars
    /\ [][last'.op \in RequestOps => (docs' = docs /\ insts' = insts /\ yui' = yui)]_vars

\* two requests of one application between snapshot and attachment, the
\* first having changed its contribution after the second took its snapshot
C14_Witness ==
    /\ last.op = "contribute"
    /\ last.req = 1
    /\ reqs[1].app = reqs[2].app
    /\ reqs[1].state = "SNAPSHOTTED"
    /\ reqs[2].state = "ATTACHED"
    /\ reqs[1].snap # reqs[2].snap
    /\ SnapshotOf(1).scope = "seedB"
    /\ SnapshotOf(2).scope = "seedA"
    /\ reqs[2].locals = reqs[2].snap
====
